---- MODULE Spec2Model ----
(***************************************************************************)
(* LTE PDCP entity (lib/src/upper/pdcp_entity_lte.cc): the per-bearer      *)
(* transmit and receive state machine, the undelivered-SDU queue with its  *)
(* discard timers, and the PDCP status report.                             *)
(*                                                                         *)
(* uint32_t quantities are kept as naturals below 2^31 wherever the code   *)
(* keeps them small; a value of 2^31 or more (only COUNT built from an     *)
(* underflowed HFN) is written as its two's-complement reading v - 2^32.   *)
(***************************************************************************)
EXTENDS Integers, Sequences, FiniteSets, TLC

VARIABLES
  cfg,                    \* pdcp_config_t plus rlc->rb_is_um(lcid)
  st,                     \* pdcp_lte_state_t
  integrity_direction,
  encryption_direction,
  enable_security_tx_sn,
  enable_security_rx_sn,
  undelivered_sdus_queue, \* std::map<uint32_t, unique_byte_buffer_t>
  discard_timers_map,     \* std::map<uint32_t, unique_timer>
  rlc_tx,                 \* PDUs the last handler handed to rlc->write_sdu
  rlc_discard,            \* SN of the last rlc->discard_sdu(lcid, sn) call
  upper_rx,               \* last result of an Rx data handler
  peer,                   \* the peer entity at the far end of the link
  hist,                   \* bookkeeping of the write_sdu calls made so far
  ev                      \* the handler that ran last, with its arguments

vars == << cfg, st, integrity_direction, encryption_direction,
           enable_security_tx_sn, enable_security_rx_sn,
           undelivered_sdus_queue, discard_timers_map,
           rlc_tx, rlc_discard, upper_rx, peer, hist, ev >>

-----------------------------------------------------------------------------
(* Bounds of the model *)

MaxWrites == 2      \* write_sdu calls made by the upper layers in one run
MaxHfn == 1         \* largest HFN a handed-over bearer state carries
MaxRxHfn == 1       \* RX_HFN up to which PDUs are received
MaxCountedWrites == 4 \* write_sdu calls in a run of SpecSdu
MaxLinkExtra == 2   \* SDUs sent over the link past the first SN wrap-around
MaxNotify == 2      \* SNs in one notify_delivery list
MaxBitmapBytes == 1 \* bitmap bytes of a received status report
SnSpread == 1       \* received SNs lie within SnSpread of 0, the window and the maximum

-----------------------------------------------------------------------------
(* Program constants *)

REORDERING_WINDOW_DRB == 2048
PDCP_SN_LEN_5 == 5
PDCP_SN_LEN_7 == 7
PDCP_SN_LEN_12 == 12
PDCP_SN_LEN_18 == 18
PDCP_DC_FIELD_CONTROL_PDU == 0
PDCP_PDU_TYPE_STATUS_REPORT == 0
NoSn == -1          \* the "-1" of upper_sn and enable_security_*_sn

-----------------------------------------------------------------------------
(* Integer helpers *)

RECURSIVE Pow2(_)
Pow2(n) == IF n = 0 THEN 1 ELSE 2 * Pow2(n - 1)

RECURSIVE BitAnd(_, _)
BitAnd(a, b) ==
  IF a = 0 \/ b = 0 THEN 0
  ELSE (IF a % 2 = 1 /\ b % 2 = 1 THEN 1 ELSE 0) + 2 * BitAnd(a \div 2, b \div 2)

RECURSIVE BitOr(_, _)
BitOr(a, b) ==
  IF a = 0 THEN b
  ELSE IF b = 0 THEN a
  ELSE (IF a % 2 = 1 \/ b % 2 = 1 THEN 1 ELSE 0) + 2 * BitOr(a \div 2, b \div 2)

\* (x << n) on uint32_t; x may be -1 for 0xFFFFFFFF. The result is written
\* v - 2^32 when v >= 2^31.
Shl32(x, n) ==
  LET low == x % Pow2(32 - n)
  IN  IF low >= Pow2(31 - n) THEN (low - Pow2(32 - n)) * Pow2(n) ELSE low * Pow2(n)

\* x + 1 on a uint32_t counter
Inc32(x) == IF x = 2147483647 THEN -2147483647 - 1 ELSE x + 1

EmptyMap == [k \in {} |-> 0]
MapPut(m, k, v) == [x \in (DOMAIN m) \cup {k} |-> IF x = k THEN v ELSE m[x]]
MapErase(m, k) == [x \in (DOMAIN m) \ {k} |-> m[x]]

RECURSIVE SetToSortedSeq(_)
SetToSortedSeq(S) ==
  IF S = {} THEN << >>
  ELSE LET lo == CHOOSE x \in S : \A y \in S : x <= y
       IN  << lo >> \o SetToSortedSeq(S \ {lo})

Min(S) == CHOOSE x \in S : \A y \in S : x <= y
Max(S) == CHOOSE x \in S : \A y \in S : x >= y

-----------------------------------------------------------------------------
(* Configuration *)

Configs ==
  { [rb |-> c[1], um |-> c[2], sn_len |-> c[3], hdr_len_bytes |-> c[4], discard_timer |-> d,
      status_report_required |-> r] :
      c \in { << "SRB", FALSE, PDCP_SN_LEN_5, 1 >>,
              << "DRB", TRUE, PDCP_SN_LEN_7, 1 >>,
              << "DRB", FALSE, PDCP_SN_LEN_12, 2 >>,
              << "DRB", FALSE, PDCP_SN_LEN_18, 3 >> },
      d \in { "finite", "infinity" },
      r \in BOOLEAN }

is_srb == cfg.rb = "SRB"
is_drb == cfg.rb = "DRB"
rb_is_um == cfg.um
IsAm == is_drb /\ ~rb_is_um

maximum_pdcp_sn == Pow2(cfg.sn_len) - 1
reordering_window == IF is_srb THEN 0 ELSE REORDERING_WINDOW_DRB

\* pdcp_entity_base: COUNT, HFN and SN of a COUNT
COUNT(hfn, sn) ==
  LET hi == Shl32(hfn, cfg.sn_len)
  IN  IF hi >= 0 THEN BitOr(hi, sn) ELSE hi + sn
SN(count) == count % Pow2(cfg.sn_len)
HFN(count) == (count - SN(count)) \div Pow2(cfg.sn_len)

-----------------------------------------------------------------------------
(* Framing (pdcp_entity_base) *)

\* The hdr_len_bytes header bytes write_data_header puts in front of the SDU
write_data_header(count) ==
  LET sn == SN(count)
  IN  IF is_srb THEN << sn >>
      ELSE IF cfg.sn_len = PDCP_SN_LEN_7 THEN << 128 + sn >>
      ELSE IF cfg.sn_len = PDCP_SN_LEN_12 THEN << 128 + (sn \div 256), sn % 256 >>
      ELSE << 128 + (sn \div 65536), (sn \div 256) % 256, sn % 256 >>

\* The SN read_data_header takes out of the header bytes
read_data_header(msg) ==
  IF cfg.sn_len = PDCP_SN_LEN_5 THEN msg[1] % 32
  ELSE IF cfg.sn_len = PDCP_SN_LEN_7 THEN msg[1] % 128
  ELSE IF cfg.sn_len = PDCP_SN_LEN_12 THEN (msg[1] * 256 + msg[2]) % 4096
  ELSE (msg[1] * 65536 + msg[2] * 256 + msg[3]) % 262144

is_control_pdu(pdu) == (pdu.msg[1] \div 128) % 2 = PDCP_DC_FIELD_CONTROL_PDU
get_control_pdu_type(pdu) == (pdu.msg[1] \div 16) % 8

\* N_bytes of a PDU: its header or control bytes, the payload and the MAC-I
N_bytes(pdu) == Len(pdu.msg) + pdu.len + (IF pdu.mac THEN 4 ELSE 0)

\* enable_integrity(direction) / enable_encryption(direction)
enable_direction(current, direction) ==
  IF current = "TX" /\ direction = "RX" THEN "TXRX"
  ELSE IF current = "RX" /\ direction = "TX" THEN "TXRX"
  ELSE direction

-----------------------------------------------------------------------------
(* Transmit path *)

\* The part of the entity write_sdu reads and writes
TxContext ==
  [ st |-> st, und |-> undelivered_sdus_queue, tim |-> discard_timers_map,
    integ |-> integrity_direction, encr |-> encryption_direction,
    en_tx |-> enable_security_tx_sn, rlc_tx |-> << >> ]

\* store_sdu(tx_count, sdu): no insertion when the key is already there
store_sdu(und, tx_count, sdu) ==
  IF tx_count \in DOMAIN und THEN und ELSE MapPut(und, tx_count, sdu)

\* stores_sdu without the RLC-UM test
stores_sdu_on_any_drb == is_drb

\* Whether write_sdu keeps a copy of the SDU for retransmission
stores_sdu == is_drb /\ ~rb_is_um

\* The key under which write_sdu stores the SDU copy
store_key(used_sn, tx_count) == used_sn

\* The argument discard_callback is constructed with
discard_fnc_sn(used_sn, tx_count) == used_sn

\* discard_timers_map.insert(std::make_pair(tx_count, timer)): an existing
\* key keeps its timer and the new one is destroyed unarmed
start_discard_timer(tim, used_sn, tx_count, sdu) ==
  IF cfg.discard_timer = "infinity" \/ tx_count \in DOMAIN tim THEN tim
  ELSE MapPut(tim, tx_count,
              [discard_sn |-> discard_fnc_sn(used_sn, tx_count), sdu |-> sdu, running |-> TRUE])

\* advance_tx that forgets TX_HFN on the wrap
advance_tx_keeps_hfn(s) ==
  IF s.next_pdcp_tx_sn + 1 > maximum_pdcp_sn
    THEN [s EXCEPT !.next_pdcp_tx_sn = 0]
    ELSE [s EXCEPT !.next_pdcp_tx_sn = s.next_pdcp_tx_sn + 1]

\* NEXT_PDCP_TX_SN / TX_HFN after a PDU that took its SN from the state
advance_tx(s) ==
  IF s.next_pdcp_tx_sn + 1 > maximum_pdcp_sn
    THEN [s EXCEPT !.tx_hfn = Inc32(s.tx_hfn), !.next_pdcp_tx_sn = 0]
    ELSE [s EXCEPT !.next_pdcp_tx_sn = s.next_pdcp_tx_sn + 1]

\* write_sdu that arms the discard timer before it asks RLC for room
write_sdu_arms_when_full(c, sdu, upper_sn, full) ==
  LET used_sn == IF upper_sn = NoSn THEN c.st.next_pdcp_tx_sn ELSE upper_sn
      tx_count == COUNT(c.st.tx_hfn, used_sn)
      tim == start_discard_timer(c.tim, used_sn, tx_count, sdu)
      pdu == [ msg |-> write_data_header(tx_count), len |-> 1, sdu |-> sdu,
               count |-> tx_count, pdcp_sn |-> used_sn,
               mac |-> is_srb, integrity |-> c.integ \in {"TX", "TXRX"} /\ is_srb,
               ciphered |-> c.encr \in {"TX", "TXRX"} ]
  IN  IF full THEN [c EXCEPT !.tim = tim]
      ELSE [c EXCEPT !.tim = tim,
                     !.st = IF upper_sn = NoSn THEN advance_tx(c.st) ELSE c.st,
                     !.rlc_tx = Append(c.rlc_tx, pdu)]

\* write_sdu that protects the PDU by the directions it found, and activates
\* pending security only afterwards
write_sdu_activates_late(c, sdu, upper_sn, full) ==
  IF full THEN c
  ELSE
    LET used_sn == IF upper_sn = NoSn THEN c.st.next_pdcp_tx_sn ELSE upper_sn
        tx_count == COUNT(c.st.tx_hfn, used_sn)
        und == IF stores_sdu
                 THEN store_sdu(c.und, store_key(used_sn, tx_count),
                                [sdu |-> sdu, count |-> tx_count])
                 ELSE c.und
        activate == c.en_tx # NoSn /\ c.en_tx = tx_count
        pdu == [ msg |-> write_data_header(tx_count), len |-> 1, sdu |-> sdu,
                 count |-> tx_count, pdcp_sn |-> used_sn,
                 mac |-> is_srb, integrity |-> c.integ \in {"TX", "TXRX"} /\ is_srb,
                 ciphered |-> c.encr \in {"TX", "TXRX"} ]
    IN  [ st |-> IF upper_sn = NoSn THEN advance_tx(c.st) ELSE c.st,
          und |-> und, tim |-> start_discard_timer(c.tim, used_sn, tx_count, sdu),
          integ |-> IF activate THEN enable_direction(c.integ, "TX") ELSE c.integ,
          encr |-> IF activate THEN enable_direction(c.encr, "TX") ELSE c.encr,
          en_tx |-> IF activate THEN NoSn ELSE c.en_tx,
          rlc_tx |-> Append(c.rlc_tx, pdu) ]

\* write_sdu(sdu, upper_sn) on context c; full is rlc->sdu_queue_is_full(lcid).
\* A stored copy carries, besides the SDU, the COUNT this call computed for it.
write_sdu(c, sdu, upper_sn, full) ==
  IF full THEN c
  ELSE
    LET used_sn == IF upper_sn = NoSn THEN c.st.next_pdcp_tx_sn ELSE upper_sn
        tx_count == COUNT(c.st.tx_hfn, used_sn)
        und == IF stores_sdu
                 THEN store_sdu(c.und, store_key(used_sn, tx_count),
                                [sdu |-> sdu, count |-> tx_count])
                 ELSE c.und
        activate == c.en_tx # NoSn /\ c.en_tx = tx_count
        integ == IF activate THEN enable_direction(c.integ, "TX") ELSE c.integ
        encr == IF activate THEN enable_direction(c.encr, "TX") ELSE c.encr
        tim == start_discard_timer(c.tim, used_sn, tx_count, sdu)
        do_integrity == integ \in {"TX", "TXRX"}
        pdu == [ msg |-> write_data_header(tx_count), len |-> 1, sdu |-> sdu,
                 count |-> tx_count, pdcp_sn |-> used_sn,
                 mac |-> is_srb, integrity |-> do_integrity /\ is_srb,
                 ciphered |-> encr \in {"TX", "TXRX"} ]
    IN  [ st |-> IF upper_sn = NoSn THEN advance_tx(c.st) ELSE c.st,
          und |-> und, tim |-> tim, integ |-> integ, encr |-> encr,
          en_tx |-> IF activate THEN NoSn ELSE c.en_tx,
          rlc_tx |-> Append(c.rlc_tx, pdu) ]

\* Writes a context back into the entity
SetTxContext(c) ==
  /\ st' = c.st
  /\ undelivered_sdus_queue' = c.und
  /\ discard_timers_map' = c.tim
  /\ integrity_direction' = c.integ
  /\ encryption_direction' = c.encr
  /\ enable_security_tx_sn' = c.en_tx
  /\ rlc_tx' = c.rlc_tx

\* SNs the upper layers hand to write_sdu after a handover
OverrideSns == {maximum_pdcp_sn}

\* The write_sdu calls the model still allows
CanWrite == hist.total < MaxWrites

\* GW/RRC calls write_sdu(sdu, upper_sn) with the hist.total + 1st SDU; full
\* is what rlc->sdu_queue_is_full(lcid) answers
WriteSduCall(upper_sn, full) ==
  /\ SetTxContext(write_sdu(TxContext, hist.total + 1, upper_sn, full))
  /\ ev' = [op |-> "write_sdu", arg |-> << upper_sn, full >>]
  /\ UNCHANGED << cfg, enable_security_rx_sn, rlc_discard, upper_rx, peer >>

WriteSdu ==
  \E upper_sn \in {NoSn} \cup OverrideSns, full \in BOOLEAN :
    /\ CanWrite
    /\ WriteSduCall(upper_sn, full)
    /\ hist' = [hist EXCEPT !.total = @ + 1]

-----------------------------------------------------------------------------
(* Construction and handover *)

InitState ==
  [ next_pdcp_tx_sn |-> 0, tx_hfn |-> 0, rx_hfn |-> 0, next_pdcp_rx_sn |-> 0,
    last_submitted_pdcp_rx_sn |-> maximum_pdcp_sn ]

NoRx == [delivered |-> FALSE, sn |-> NoSn, count |-> NoSn, rule |-> "none"]

\* The entity after construction, whatever its configuration
InitEntity ==
  /\ st = InitState
  /\ integrity_direction = "NONE"
  /\ encryption_direction = "NONE"
  /\ enable_security_tx_sn = NoSn
  /\ enable_security_rx_sn = NoSn
  /\ undelivered_sdus_queue = EmptyMap
  /\ discard_timers_map = EmptyMap
  /\ rlc_tx = << >>
  /\ rlc_discard = NoSn
  /\ upper_rx = NoRx
  /\ peer = [ st |-> InitState, integ |-> "NONE", encr |-> "NONE", en_rx |-> NoSn,
               und |-> EmptyMap, tim |-> EmptyMap, rx |-> NoRx ]
  /\ hist = [init_sn |-> 0, init_hfn |-> 0, calls |-> 0, sent |-> 0, total |-> 0]
  /\ ev = [op |-> "init", arg |-> << >>]

\* No handler reads status_report_required (the constructor logs it):
\* specifications that are not about it construct the entity with the flag set
Init == cfg \in { c \in Configs : c.status_report_required } /\ InitEntity

\* Construction with any configuration
InitAnyConfig == cfg \in Configs /\ InitEntity

\* Transmit counters a handed-over bearer state carries
HandoverTxStates ==
  { << n, h >> : n \in {maximum_pdcp_sn}, h \in 0..MaxHfn }

\* set_bearer_state(state)
set_bearer_state(state) == st' = state

\* Handover: the state of the source bearer is set on the new entity before
\* it carries traffic
SetBearerState ==
  \E t \in HandoverTxStates :
    /\ ev.op = "init" /\ hist.total = 0 /\ hist.calls = 0
    /\ set_bearer_state([st EXCEPT !.next_pdcp_tx_sn = t[1], !.tx_hfn = t[2]])
    /\ hist' = [hist EXCEPT !.init_sn = t[1], !.init_hfn = t[2]]
    /\ ev' = [op |-> "set_bearer_state", arg |-> << >>]
    /\ UNCHANGED << cfg, integrity_direction, encryption_direction,
                    enable_security_tx_sn, enable_security_rx_sn,
                    undelivered_sdus_queue, discard_timers_map,
                    rlc_tx, rlc_discard, upper_rx, peer >>

-----------------------------------------------------------------------------
(* Discard timers and delivery notifications *)

\* discard_timers_map.erase(key) / undelivered_sdus_queue.erase(key)
erase(m, key) == MapErase(m, key)

\* discard_callback::operator() of the timer stored under key k. The timer has
\* fired: unless the callback erases it, it stays in the map, stopped.
discard_callback(und, tim, k) ==
  LET discard_sn == tim[k].discard_sn
      fired == [tim EXCEPT ![k].running = FALSE]
  IN  [ und |-> IF discard_sn \in DOMAIN und THEN erase(und, discard_sn) ELSE und,
        rlc_discard |-> discard_sn,
        tim |-> erase(fired, discard_sn) ]

DiscardTimerExpiry ==
  \E k \in DOMAIN discard_timers_map :
    /\ discard_timers_map[k].running
    /\ LET r == discard_callback(undelivered_sdus_queue, discard_timers_map, k)
       IN  /\ undelivered_sdus_queue' = r.und
           /\ discard_timers_map' = r.tim
           /\ rlc_discard' = r.rlc_discard
    /\ rlc_tx' = << >>
    /\ ev' = [op |-> "discard_callback",
              arg |-> [key |-> k, sdu |-> discard_timers_map[k].sdu,
                       sn |-> discard_timers_map[k].discard_sn]]
    /\ UNCHANGED << cfg, st, integrity_direction, encryption_direction,
                    enable_security_tx_sn, enable_security_rx_sn,
                    upper_rx, peer, hist >>

\* notify_delivery that goes on to the next SN when it does not find one
RECURSIVE notify_delivery_skips(_, _, _)
notify_delivery_skips(und, tim, pdcp_sns) ==
  IF pdcp_sns = << >> THEN [und |-> und, tim |-> tim]
  ELSE LET sn == Head(pdcp_sns)
       IN  IF sn \notin DOMAIN und
             THEN notify_delivery_skips(und, tim, Tail(pdcp_sns))
             ELSE notify_delivery_skips(erase(und, sn), erase(tim, sn), Tail(pdcp_sns))

\* notify_delivery(pdcp_sns): stops at the first SN it does not find
RECURSIVE notify_delivery(_, _, _)
notify_delivery(und, tim, pdcp_sns) ==
  IF pdcp_sns = << >> THEN [und |-> und, tim |-> tim]
  ELSE LET sn == Head(pdcp_sns)
       IN  IF sn \notin DOMAIN und THEN [und |-> und, tim |-> tim]
           ELSE notify_delivery(erase(und, sn), erase(tim, sn), Tail(pdcp_sns))

\* SNs RLC may name in a delivery notification
NotifySns == (DOMAIN undelivered_sdus_queue) \cup {st.next_pdcp_tx_sn}

NotifyLists ==
  { l \in UNION { [1..n -> NotifySns] : n \in 1..MaxNotify } :
      \A i, j \in DOMAIN l : i # j => l[i] # l[j] }

NotifyDelivery ==
  \E pdcp_sns \in NotifyLists :
    /\ LET r == notify_delivery(undelivered_sdus_queue, discard_timers_map, pdcp_sns)
       IN  /\ undelivered_sdus_queue' = r.und
           /\ discard_timers_map' = r.tim
    /\ rlc_tx' = << >>
    /\ ev' = [op |-> "notify_delivery",
              arg |-> [sns |-> pdcp_sns,
                       sdus |-> { undelivered_sdus_queue[k].sdu :
                                    k \in { x \in DOMAIN undelivered_sdus_queue :
                                              \E i \in DOMAIN pdcp_sns : pdcp_sns[i] = x } },
                       found |-> \A i \in DOMAIN pdcp_sns :
                                    pdcp_sns[i] \in DOMAIN undelivered_sdus_queue]]
    /\ UNCHANGED << cfg, st, integrity_direction, encryption_direction,
                    enable_security_tx_sn, enable_security_rx_sn,
                    rlc_discard, upper_rx, peer, hist >>

-----------------------------------------------------------------------------
(* Status report *)

\* The FMS bytes send_status_report writes; << >> for an unsupported SN length
status_report_header(fms) ==
  IF cfg.sn_len = PDCP_SN_LEN_12
    THEN << PDCP_DC_FIELD_CONTROL_PDU * 128 + PDCP_PDU_TYPE_STATUS_REPORT * 16
              + BitAnd(15, fms \div 256),
            BitAnd(255, fms) >>
  ELSE IF cfg.sn_len = PDCP_SN_LEN_18
    THEN << PDCP_DC_FIELD_CONTROL_PDU * 128 + PDCP_PDU_TYPE_STATUS_REPORT * 16
              + BitAnd(3, fms \div 65536),
            BitAnd(255, fms \div 256),
            BitAnd(255, fms) >>
  ELSE << >>

RECURSIVE SumSet(_)
SumSet(S) == IF S = {} THEN 0 ELSE LET x == CHOOSE y \in S : TRUE IN x + SumSet(S \ {x})

\* bitmap_bit that counts the bits of a byte from the least significant one
bitmap_bit_lsb_first(offset) == Pow2(offset % 8)

\* The bit send_status_report sets for the key at distance offset from FMS
bitmap_bit(offset) == Pow2(7 - (offset % 8))

\* The bitmap bytes that are not zero, by byte offset
status_report_bitmap(keys, fms) ==
  LET used == { (k - fms) \div 8 : k \in keys }
  IN  [ b \in used |->
          SumSet({ bitmap_bit(k - fms) : k \in { x \in keys : (x - fms) \div 8 = b } }) ]

\* send_status_report(): the PDUs it hands to RLC (none, or the report)
send_status_report(und, s) ==
  IF rb_is_um THEN << >>
  ELSE
    LET keys == DOMAIN und
        fms == IF keys = {} THEN s.next_pdcp_tx_sn ELSE Min(keys)
        hdr == status_report_header(fms)
        last_sn == Max(keys)
        bitmap_sz == IF keys = {} THEN 0 ELSE (last_sn - (fms - 1) + 7) \div 8
    IN  IF hdr = << >> THEN << >>
        ELSE << [ msg |-> hdr, len |-> bitmap_sz, mac |-> FALSE,
                  bitmap |-> IF keys = {} THEN EmptyMap ELSE status_report_bitmap(keys, fms),
                  fms |-> fms, flagged |-> keys ] >>

\* The FMS handle_status_report_pdu reads; NoSn for an unsupported SN length
status_report_fms(msg) ==
  IF cfg.sn_len = PDCP_SN_LEN_12 THEN BitAnd(msg[1] * 256 + msg[2], 4095)
  ELSE IF cfg.sn_len = PDCP_SN_LEN_18
    THEN BitAnd(msg[1] * 65536 + msg[2] * 256 + msg[3], 16383)
  ELSE NoSn

\* bset[pos] of std::bitset<8> bset{byte}; pos = 8 is outside the bitset and
\* reads whatever the build yields (oob)
bitset_test(byte, pos, oob) ==
  IF pos >= 8 THEN oob ELSE (byte \div Pow2(pos)) % 2 = 1

\* The bit handle_status_report_pdu tests for j
acked_bit_pos(j) == 8 - j

\* The SNs handle_status_report_pdu collects from the bitmap; oob is the set
\* of byte offsets at which the read outside the bitset yields 1
status_report_acked_sns(pdu, fms, oob) ==
  LET offsets == { i \in (DOMAIN pdu.bitmap) \cup oob : i < pdu.len }
      byte(i) == IF i \in DOMAIN pdu.bitmap THEN pdu.bitmap[i] ELSE 0
  IN  { fms + i * 8 + j :
          << i, j >> \in { p \in offsets \X (0..7) :
                             bitset_test(byte(p[1]), acked_bit_pos(p[2]), p[1] \in oob) } }

\* handle_status_report_pdu(pdu)
handle_status_report_pdu(und, tim, pdu, oob) ==
  LET fms == status_report_fms(pdu.msg)
      below == { k \in DOMAIN und : k < fms }
      und1 == [k \in (DOMAIN und) \ below |-> und[k]]
      tim1 == [k \in (DOMAIN tim) \ below |-> tim[k]]
      acked_sns == status_report_acked_sns(pdu, fms, oob)
  IN  IF fms = NoSn THEN [und |-> und, tim |-> tim]
      ELSE [ und |-> [k \in (DOMAIN und1) \ acked_sns |-> und1[k]],
             tim |-> [k \in (DOMAIN tim1) \ acked_sns |-> tim1[k]] ]

\* handle_control_pdu(pdu)
handle_control_pdu(und, tim, pdu, oob) ==
  IF get_control_pdu_type(pdu) = PDCP_PDU_TYPE_STATUS_REPORT
    THEN handle_status_report_pdu(und, tim, pdu, oob)
    ELSE [und |-> und, tim |-> tim]

-----------------------------------------------------------------------------
(* Receive path *)

\* integrity_verify of the crypto provider: the MAC-I matches when it was
\* generated over the same bytes with the same COUNT
integrity_verify(pdu, count, decrypt) ==
  pdu.integrity /\ pdu.count = count /\ pdu.ciphered = decrypt

\* handle_srb_pdu that takes SN = Next_PDCP_RX_SN for a wrapped SN
handle_srb_pdu_le(s, pdu, integ, encr) ==
  LET sn == read_data_header(pdu.msg)
      wrapped == sn <= s.next_pdcp_rx_sn
      count == IF wrapped THEN COUNT(Inc32(s.rx_hfn), sn) ELSE COUNT(s.rx_hfn, sn)
      s1 == IF wrapped THEN [s EXCEPT !.rx_hfn = Inc32(@)] ELSE s
      s2 == [s1 EXCEPT !.next_pdcp_rx_sn = (sn + 1) % (maximum_pdcp_sn + 1)]
  IN  [st |-> s2, rx |-> [delivered |-> TRUE, sn |-> sn, count |-> count, rule |-> "srb"]]

\* handle_srb_pdu that takes the maximum SN for an SN of the next HFN
handle_srb_pdu_max_wraps(s, pdu, integ, encr) ==
  LET sn == read_data_header(pdu.msg)
      wrapped == sn < s.next_pdcp_rx_sn \/ sn = maximum_pdcp_sn
      count == IF wrapped THEN COUNT(Inc32(s.rx_hfn), sn) ELSE COUNT(s.rx_hfn, sn)
      decrypt == encr \in {"RX", "TXRX"}
      s1 == IF wrapped THEN [s EXCEPT !.rx_hfn = Inc32(@)] ELSE s
      s2 == [s1 EXCEPT !.next_pdcp_rx_sn = (sn + 1) % (maximum_pdcp_sn + 1)]
  IN  IF integ \in {"RX", "TXRX"} /\ ~integrity_verify(pdu, count, decrypt)
        THEN [st |-> s, rx |-> [delivered |-> FALSE, sn |-> sn, count |-> count,
                                rule |-> "integrity"]]
        ELSE [st |-> s2, rx |-> [delivered |-> TRUE, sn |-> sn, count |-> count,
                                 rule |-> "srb"]]

\* handle_srb_pdu that updates the state variables before the integrity check
handle_srb_pdu_updates_first(s, pdu, integ, encr) ==
  LET sn == read_data_header(pdu.msg)
      count == IF sn < s.next_pdcp_rx_sn THEN COUNT(Inc32(s.rx_hfn), sn)
                                         ELSE COUNT(s.rx_hfn, sn)
      decrypt == encr \in {"RX", "TXRX"}
      s1 == IF sn < s.next_pdcp_rx_sn THEN [s EXCEPT !.rx_hfn = Inc32(@)] ELSE s
      s2 == [s1 EXCEPT !.next_pdcp_rx_sn = (sn + 1) % (maximum_pdcp_sn + 1)]
      s3 == IF sn = maximum_pdcp_sn THEN [s2 EXCEPT !.rx_hfn = Inc32(@)] ELSE s2
  IN  IF integ \in {"RX", "TXRX"} /\ ~integrity_verify(pdu, count, decrypt)
        THEN [st |-> s3, rx |-> [delivered |-> FALSE, sn |-> sn, count |-> count,
                                 rule |-> "integrity"]]
        ELSE [st |-> s3, rx |-> [delivered |-> TRUE, sn |-> sn, count |-> count,
                                 rule |-> "srb"]]

\* handle_srb_pdu(pdu) on state s
handle_srb_pdu(s, pdu, integ, encr) ==
  LET sn == read_data_header(pdu.msg)
      count == IF sn < s.next_pdcp_rx_sn THEN COUNT(Inc32(s.rx_hfn), sn)
                                         ELSE COUNT(s.rx_hfn, sn)
      decrypt == encr \in {"RX", "TXRX"}
      s1 == IF sn < s.next_pdcp_rx_sn THEN [s EXCEPT !.rx_hfn = Inc32(@)] ELSE s
      s2 == [s1 EXCEPT !.next_pdcp_rx_sn = sn + 1]
      s3 == IF s2.next_pdcp_rx_sn > maximum_pdcp_sn
              THEN [s2 EXCEPT !.next_pdcp_rx_sn = 0, !.rx_hfn = Inc32(@)]
              ELSE s2
  IN  IF integ \in {"RX", "TXRX"} /\ ~integrity_verify(pdu, count, decrypt)
        THEN [st |-> s, rx |-> [delivered |-> FALSE, sn |-> sn, count |-> count,
                                rule |-> "integrity"]]
        ELSE [st |-> s3, rx |-> [delivered |-> TRUE, sn |-> sn, count |-> count,
                                 rule |-> "srb"]]

\* handle_um_drb_pdu without the wrap of Next_PDCP_RX_SN
handle_um_drb_pdu_no_wrap(s, pdu, integ, encr) ==
  LET sn == read_data_header(pdu.msg)
      s1 == IF sn < s.next_pdcp_rx_sn THEN [s EXCEPT !.rx_hfn = Inc32(@)] ELSE s
  IN  [st |-> [s1 EXCEPT !.next_pdcp_rx_sn = sn + 1],
       rx |-> [delivered |-> TRUE, sn |-> sn, count |-> COUNT(s1.rx_hfn, sn), rule |-> "um"]]

\* handle_um_drb_pdu(pdu) on state s
handle_um_drb_pdu(s, pdu, integ, encr) ==
  LET sn == read_data_header(pdu.msg)
      s1 == IF sn < s.next_pdcp_rx_sn THEN [s EXCEPT !.rx_hfn = Inc32(@)] ELSE s
      count == COUNT(s1.rx_hfn, sn)
      s2 == [s1 EXCEPT !.next_pdcp_rx_sn = sn + 1]
      s3 == IF s2.next_pdcp_rx_sn > maximum_pdcp_sn
              THEN [s2 EXCEPT !.next_pdcp_rx_sn = 0, !.rx_hfn = Inc32(@)]
              ELSE s2
  IN  [st |-> s3, rx |-> [delivered |-> TRUE, sn |-> sn, count |-> count, rule |-> "um"]]

\* handle_am_drb_pdu that lets the PDU with SN = Last_Submitted_PDCP_RX_SN through
handle_am_drb_pdu_no_dup_check(s, pdu, integ, encr) ==
  LET sn == read_data_header(pdu.msg)
      last_submit_diff_sn == s.last_submitted_pdcp_rx_sn - sn
      sn_diff_last_submit == sn - s.last_submitted_pdcp_rx_sn
      sn_diff_next_pdcp_rx_sn == sn - s.next_pdcp_rx_sn
      r == IF s.next_pdcp_rx_sn - sn > reordering_window
             THEN [st |-> [s EXCEPT !.rx_hfn = Inc32(@), !.next_pdcp_rx_sn = sn + 1],
                   count |-> COUNT(Inc32(s.rx_hfn), sn), rule |-> "hfn_inc"]
           ELSE IF sn_diff_next_pdcp_rx_sn >= reordering_window
             THEN [st |-> s, count |-> COUNT(s.rx_hfn - 1, sn), rule |-> "hfn_dec"]
           ELSE IF sn >= s.next_pdcp_rx_sn
             THEN [st |-> IF sn + 1 > maximum_pdcp_sn
                            THEN [s EXCEPT !.next_pdcp_rx_sn = 0, !.rx_hfn = Inc32(@)]
                            ELSE [s EXCEPT !.next_pdcp_rx_sn = sn + 1],
                   count |-> COUNT(s.rx_hfn, sn), rule |-> "ge"]
           ELSE [st |-> s, count |-> COUNT(s.rx_hfn, sn), rule |-> "lt"]
  IN  IF \/ (0 <= sn_diff_last_submit /\ sn_diff_last_submit > reordering_window)
         \/ (0 < last_submit_diff_sn /\ last_submit_diff_sn < reordering_window)
        THEN [st |-> s, rx |-> [delivered |-> FALSE, sn |-> sn, count |-> 0,
                                rule |-> "discard"]]
        ELSE [st |-> [r.st EXCEPT !.last_submitted_pdcp_rx_sn = sn],
              rx |-> [delivered |-> TRUE, sn |-> sn, count |-> r.count, rule |-> r.rule]]

\* handle_am_drb_pdu that tests SN >= Next_PDCP_RX_SN before it tests the
\* distance of the SN from Next_PDCP_RX_SN
handle_am_drb_pdu_ge_first(s, pdu, integ, encr) ==
  LET sn == read_data_header(pdu.msg)
      last_submit_diff_sn == s.last_submitted_pdcp_rx_sn - sn
      sn_diff_last_submit == sn - s.last_submitted_pdcp_rx_sn
      sn_diff_next_pdcp_rx_sn == sn - s.next_pdcp_rx_sn
      r == IF s.next_pdcp_rx_sn - sn > reordering_window
             THEN [st |-> [s EXCEPT !.rx_hfn = Inc32(@), !.next_pdcp_rx_sn = sn + 1],
                   count |-> COUNT(Inc32(s.rx_hfn), sn), rule |-> "hfn_inc"]
           ELSE IF sn >= s.next_pdcp_rx_sn
             THEN [st |-> IF sn + 1 > maximum_pdcp_sn
                            THEN [s EXCEPT !.next_pdcp_rx_sn = 0, !.rx_hfn = Inc32(@)]
                            ELSE [s EXCEPT !.next_pdcp_rx_sn = sn + 1],
                   count |-> COUNT(s.rx_hfn, sn), rule |-> "ge"]
           ELSE IF sn_diff_next_pdcp_rx_sn >= reordering_window
             THEN [st |-> s, count |-> COUNT(s.rx_hfn - 1, sn), rule |-> "hfn_dec"]
           ELSE [st |-> s, count |-> COUNT(s.rx_hfn, sn), rule |-> "lt"]
  IN  IF \/ (0 <= sn_diff_last_submit /\ sn_diff_last_submit > reordering_window)
         \/ (0 <= last_submit_diff_sn /\ last_submit_diff_sn < reordering_window)
        THEN [st |-> s, rx |-> [delivered |-> FALSE, sn |-> sn, count |-> 0,
                                rule |-> "discard"]]
        ELSE [st |-> [r.st EXCEPT !.last_submitted_pdcp_rx_sn = sn],
              rx |-> [delivered |-> TRUE, sn |-> sn, count |-> r.count, rule |-> r.rule]]

\* handle_am_drb_pdu(pdu) on state s
handle_am_drb_pdu(s, pdu, integ, encr) ==
  LET sn == read_data_header(pdu.msg)
      last_submit_diff_sn == s.last_submitted_pdcp_rx_sn - sn
      sn_diff_last_submit == sn - s.last_submitted_pdcp_rx_sn
      sn_diff_next_pdcp_rx_sn == sn - s.next_pdcp_rx_sn
      r == IF s.next_pdcp_rx_sn - sn > reordering_window
             THEN [st |-> [s EXCEPT !.rx_hfn = Inc32(@), !.next_pdcp_rx_sn = sn + 1],
                   count |-> COUNT(Inc32(s.rx_hfn), sn), rule |-> "hfn_inc"]
           ELSE IF sn_diff_next_pdcp_rx_sn >= reordering_window
             THEN [st |-> s, count |-> COUNT(s.rx_hfn - 1, sn), rule |-> "hfn_dec"]
           ELSE IF sn >= s.next_pdcp_rx_sn
             THEN [st |-> IF sn + 1 > maximum_pdcp_sn
                            THEN [s EXCEPT !.next_pdcp_rx_sn = 0, !.rx_hfn = Inc32(@)]
                            ELSE [s EXCEPT !.next_pdcp_rx_sn = sn + 1],
                   count |-> COUNT(s.rx_hfn, sn), rule |-> "ge"]
           ELSE [st |-> s, count |-> COUNT(s.rx_hfn, sn), rule |-> "lt"]
  IN  IF \/ (0 <= sn_diff_last_submit /\ sn_diff_last_submit > reordering_window)
         \/ (0 <= last_submit_diff_sn /\ last_submit_diff_sn < reordering_window)
        THEN [st |-> s, rx |-> [delivered |-> FALSE, sn |-> sn, count |-> 0,
                                rule |-> "discard"]]
        ELSE [st |-> [r.st EXCEPT !.last_submitted_pdcp_rx_sn = sn],
              rx |-> [delivered |-> TRUE, sn |-> sn, count |-> r.count, rule |-> r.rule]]

\* The handler write_pdu picks for a data PDU
handle_data_pdu(s, pdu, integ, encr) ==
  IF is_srb THEN handle_srb_pdu(s, pdu, integ, encr)
  ELSE IF is_drb /\ rb_is_um THEN handle_um_drb_pdu(s, pdu, integ, encr)
  ELSE handle_am_drb_pdu(s, pdu, integ, encr)

\* The part of the entity write_pdu reads and writes
RxContext ==
  [ st |-> st, integ |-> integrity_direction, encr |-> encryption_direction,
    en_rx |-> enable_security_rx_sn, und |-> undelivered_sdus_queue,
    tim |-> discard_timers_map, rx |-> upper_rx ]

\* write_pdu(pdu) on context c; oob resolves the out-of-range bitset reads of a
\* status report
write_pdu(c, pdu, oob) ==
  IF is_drb /\ is_control_pdu(pdu)
    THEN LET r == handle_control_pdu(c.und, c.tim, pdu, oob)
         IN  [c EXCEPT !.und = r.und, !.tim = r.tim]
  ELSE IF N_bytes(pdu) <= cfg.hdr_len_bytes THEN c
  ELSE
    LET sn == read_data_header(pdu.msg)
        activate == c.en_rx # NoSn /\ c.en_rx = sn
        integ == IF activate THEN enable_direction(c.integ, "RX") ELSE c.integ
        encr == IF activate THEN enable_direction(c.encr, "RX") ELSE c.encr
        r == handle_data_pdu(c.st, pdu, integ, encr)
    IN  [c EXCEPT !.integ = integ, !.encr = encr,
                  !.en_rx = IF activate THEN NoSn ELSE c.en_rx,
                  !.st = r.st, !.rx = r.rx]

\* Writes a context back into the entity
SetRxContext(c) ==
  /\ st' = c.st
  /\ integrity_direction' = c.integ
  /\ encryption_direction' = c.encr
  /\ enable_security_rx_sn' = c.en_rx
  /\ undelivered_sdus_queue' = c.und
  /\ discard_timers_map' = c.tim
  /\ upper_rx' = c.rx

\* SNs of the data PDUs RLC delivers
RxSns ==
  { x \in (0..SnSpread) \cup ((reordering_window - SnSpread)..(reordering_window + SnSpread))
            \cup ((maximum_pdcp_sn - SnSpread)..maximum_pdcp_sn) :
      0 <= x /\ x <= maximum_pdcp_sn }

\* A data PDU with SN sn, as the peer's write_sdu builds it without security
DataPdu(sn) ==
  [ msg |-> write_data_header(sn), len |-> 1, sdu |-> 0, count |-> sn, pdcp_sn |-> sn,
    mac |-> is_srb, integrity |-> FALSE, ciphered |-> FALSE ]

\* Receive counters a handed-over bearer state carries
HandoverRxStates ==
  { << n, l, h >> : n \in RxSns, l \in RxSns, h \in 0..MaxRxHfn }

\* Handover: the receive state of the source bearer is set on the new entity
\* before it carries traffic
SetBearerStateRx ==
  \E t \in HandoverRxStates :
    /\ ev.op = "init"
    /\ set_bearer_state([st EXCEPT !.next_pdcp_rx_sn = t[1],
                                   !.last_submitted_pdcp_rx_sn = t[2],
                                   !.rx_hfn = t[3]])
    /\ ev' = [op |-> "set_bearer_state", arg |-> << >>]
    /\ UNCHANGED << cfg, integrity_direction, encryption_direction,
                    enable_security_tx_sn, enable_security_rx_sn,
                    undelivered_sdus_queue, discard_timers_map,
                    rlc_tx, rlc_discard, upper_rx, peer, hist >>

\* RLC delivers the first data PDU to an entity, fresh or handed over
WritePduFirst ==
  \E sn \in RxSns :
    /\ ev.op \in {"init", "set_bearer_state"}
    /\ SetRxContext(write_pdu(RxContext, DataPdu(sn), {}))
    /\ rlc_tx' = << >>
    /\ ev' = [op |-> "write_pdu", arg |-> << sn >>]
    /\ UNCHANGED << cfg, enable_security_tx_sn, rlc_discard, peer, hist >>

\* Bitmap bytes of the status reports RLC delivers
StatusBytes == {128, 1}

\* FMS values of the status reports RLC delivers
StatusFms == {0, 1}

\* A status report as it is on the wire: FMS right-aligned behind the D/C
\* bit and the PDU type, then the bitmap
StatusReportPdus ==
  { [ msg |-> IF cfg.sn_len \in {PDCP_SN_LEN_12, PDCP_SN_LEN_18}
                THEN status_report_header(f)
                ELSE << PDCP_DC_FIELD_CONTROL_PDU * 128 + PDCP_PDU_TYPE_STATUS_REPORT * 16 >>,
      len |-> Cardinality(DOMAIN bm), mac |-> FALSE,
      bitmap |-> bm, fms |-> f, flagged |-> {} ] :
      f \in IF cfg.sn_len \in {PDCP_SN_LEN_12, PDCP_SN_LEN_18} THEN StatusFms ELSE {0},
      bm \in {EmptyMap} \cup UNION { [0..(n - 1) -> StatusBytes] : n \in 1..MaxBitmapBytes } }

\* The outcomes of the reads outside the bitset while pdu is handled: the
\* bitmap bytes at which they yield 1 (no byte is read unless the SN length
\* has a status report format)
StatusOobReads(pdu) ==
  IF cfg.sn_len \in {PDCP_SN_LEN_12, PDCP_SN_LEN_18}
    THEN SUBSET (0..(pdu.len - 1)) ELSE { {} }

\* RLC delivers a data PDU
WritePduData ==
  \E sn \in RxSns :
    /\ st.rx_hfn < MaxRxHfn
    /\ SetRxContext(write_pdu(RxContext, DataPdu(sn), {}))
    /\ rlc_tx' = << >>
    /\ ev' = [op |-> "write_pdu", arg |-> << sn >>]
    /\ UNCHANGED << cfg, enable_security_tx_sn, rlc_discard, peer, hist >>

\* RLC delivers a status report
WritePduStatusReport ==
  \E pdu \in StatusReportPdus :
    \E oob \in StatusOobReads(pdu) :
      /\ is_drb
      /\ SetRxContext(write_pdu(RxContext, pdu, oob))
      /\ rlc_tx' = << >>
      /\ ev' = [op |-> "status_report", arg |-> << >>]
      /\ UNCHANGED << cfg, enable_security_tx_sn, rlc_discard, peer, hist >>

-----------------------------------------------------------------------------
(* Reestablishment *)

\* The replay loop of reestablish over the keys of the moved-out queue; fulls
\* are the answers of rlc->sdu_queue_is_full(lcid), one for each write_sdu
\* A replay that lets write_sdu number the SDUs afresh
RECURSIVE replay_renumbers(_, _, _, _)
replay_renumbers(c, undelivered_sdus, keys, fulls) ==
  IF keys = << >> THEN c
  ELSE replay_renumbers(write_sdu(c, undelivered_sdus[Head(keys)].sdu, NoSn, Head(fulls)),
                        undelivered_sdus, Tail(keys), Tail(fulls))

RECURSIVE replay(_, _, _, _)
replay(c, undelivered_sdus, keys, fulls) ==
  IF keys = << >> THEN c
  ELSE replay(write_sdu(c, undelivered_sdus[Head(keys)].sdu, Head(keys), Head(fulls)),
              undelivered_sdus, Tail(keys), Tail(fulls))

\* reestablish()
reestablish(fulls) ==
  IF is_srb \/ rb_is_um
    THEN /\ st' = [st EXCEPT !.next_pdcp_tx_sn = 0, !.tx_hfn = 0,
                             !.rx_hfn = 0, !.next_pdcp_rx_sn = 0]
         /\ rlc_tx' = << >>
         /\ UNCHANGED << undelivered_sdus_queue, discard_timers_map, integrity_direction,
                         encryption_direction, enable_security_tx_sn >>
    ELSE LET report == send_status_report(undelivered_sdus_queue, st)
             c0 == [TxContext EXCEPT !.und = EmptyMap, !.rlc_tx = report]
         IN  SetTxContext(replay(c0, undelivered_sdus_queue,
                                 SetToSortedSeq(DOMAIN undelivered_sdus_queue), fulls))

Reestablish ==
  \E fulls \in [1..Cardinality(DOMAIN undelivered_sdus_queue) -> BOOLEAN] :
    /\ reestablish(fulls)
    /\ ev' = [op |-> "reestablish", arg |-> fulls]
    /\ UNCHANGED << cfg, enable_security_rx_sn, rlc_discard, upper_rx, peer, hist >>

-----------------------------------------------------------------------------
(* A transmitting entity linked to a fresh peer *)

\* SDUs sent over the link: enough to take the SN through its wrap-around
LinkSdus == maximum_pdcp_sn + 1 + MaxLinkExtra

\* The upper layers write an SDU; RLC has room and takes the PDU
LinkWriteSdu ==
  /\ rlc_tx = << >>
  /\ hist.total < LinkSdus
  /\ WriteSduCall(NoSn, FALSE)
  /\ hist' = [hist EXCEPT !.total = @ + 1]

\* RLC carries the oldest PDU to the peer, whose write_pdu handles it, and on
\* a bearer over RLC-AM tells the sender of the delivery
LinkDeliver ==
  /\ rlc_tx # << >>
  /\ LET pdu == Head(rlc_tx)
         r == IF rb_is_um
                THEN [und |-> undelivered_sdus_queue, tim |-> discard_timers_map]
                ELSE notify_delivery(undelivered_sdus_queue, discard_timers_map,
                                     << pdu.pdcp_sn >>)
     IN  /\ peer' = write_pdu(peer, pdu, {})
         /\ undelivered_sdus_queue' = r.und
         /\ discard_timers_map' = r.tim
         /\ ev' = [op |-> "link_deliver", arg |-> pdu]
  /\ rlc_tx' = Tail(rlc_tx)
  /\ UNCHANGED << cfg, st, integrity_direction, encryption_direction,
                  enable_security_tx_sn, enable_security_rx_sn,
                  rlc_discard, upper_rx, hist >>

-----------------------------------------------------------------------------
(* PDUs that end inside the header *)

\* First bytes of such PDUs: status report with FMS bits 0 or all set, a
\* control PDU of another type, a data PDU
ShortFirstBytes == {0, 15, 16, 128}

\* What the buffer holds behind the first byte
ShortOtherBytes == {0, 255}

\* The header bytes write_pdu and its handlers read of a PDU of n bytes: the
\* first n are the PDU's, the others are what the buffer held before
ShortMsgs ==
  { m \in [1..cfg.hdr_len_bytes -> ShortFirstBytes \cup ShortOtherBytes] :
      /\ m[1] \in ShortFirstBytes
      /\ \A i \in 2..cfg.hdr_len_bytes : m[i] \in ShortOtherBytes }

\* A PDU of n <= hdr_len_bytes bytes; len is negative by the bytes the header
\* lacks, so that N_bytes is n
ShortPdu(n, m) ==
  [ msg |-> m, len |-> n - cfg.hdr_len_bytes, mac |-> FALSE, sdu |-> 0,
    count |-> NoSn, pdcp_sn |-> NoSn, integrity |-> FALSE, ciphered |-> FALSE,
    bitmap |-> EmptyMap, fms |-> NoSn, flagged |-> {} ]

\* RLC delivers a PDU that is not longer than the header
WritePduShort ==
  \E n \in 0..cfg.hdr_len_bytes, m \in ShortMsgs :
    /\ SetRxContext(write_pdu(RxContext, ShortPdu(n, m), {}))
    /\ rlc_tx' = << >>
    /\ ev' = [op |-> "write_pdu_short", arg |-> << n, m >>]
    /\ UNCHANGED << cfg, enable_security_tx_sn, rlc_discard, peer, hist >>

-----------------------------------------------------------------------------
(* Security activation (pdcp_entity_base) and protected PDUs *)

\* RRC enables integrity and ciphering in a direction:
\* enable_integrity(direction) and enable_encryption(direction)
EnableSecurity(direction) ==
  /\ integrity_direction' = enable_direction(integrity_direction, direction)
  /\ encryption_direction' = enable_direction(encryption_direction, direction)
  /\ rlc_tx' = << >>
  /\ ev' = [op |-> "enable_security", arg |-> << direction >>]
  /\ UNCHANGED << cfg, st, enable_security_tx_sn, enable_security_rx_sn,
                  undelivered_sdus_queue, discard_timers_map, rlc_discard,
                  upper_rx, peer, hist >>

\* enable_security_timed(direction, sn): security starts at the PDU with that
\* TX COUNT or that received SN
enable_security_timed(direction, sn) ==
  IF direction = "TX"
    THEN enable_security_tx_sn' = sn /\ UNCHANGED enable_security_rx_sn
    ELSE enable_security_rx_sn' = sn /\ UNCHANGED enable_security_tx_sn

EnableSecurityTimed(direction, sn) ==
  /\ enable_security_timed(direction, sn)
  /\ rlc_tx' = << >>
  /\ ev' = [op |-> "enable_security_timed", arg |-> << direction, sn >>]
  /\ UNCHANGED << cfg, st, integrity_direction, encryption_direction,
                  undelivered_sdus_queue, discard_timers_map, rlc_discard,
                  upper_rx, peer, hist >>

\* TX COUNTs at which RRC lets TX security start: the first SDU, the maximum
\* SN, and the first SDU after the SN wrap-around
TxThresholds == {0, maximum_pdcp_sn, maximum_pdcp_sn + 1}

\* Received SNs at which RRC lets RX security start
RxThresholds == {0, maximum_pdcp_sn}

\* A data PDU with SN sn as the peer sends it: with or without a MAC-I
\* computed at COUNT(hfn, sn), ciphered or not
ProtectedPdu(sn, hfn, integrity, ciphered) ==
  [ DataPdu(sn) EXCEPT !.count = COUNT(hfn, sn), !.integrity = integrity,
                       !.ciphered = ciphered ]

\* RLC delivers a data PDU of a peer that may have security enabled, its
\* TX_HFN equal to RX_HFN or one ahead
WritePduProtected ==
  \E sn \in RxSns, hfn \in {st.rx_hfn, st.rx_hfn + 1}, integrity \in BOOLEAN,
     ciphered \in BOOLEAN :
    LET pdu == ProtectedPdu(sn, hfn, integrity, ciphered)
    IN  /\ st.rx_hfn < MaxRxHfn
        /\ SetRxContext(write_pdu(RxContext, pdu, {}))
        /\ rlc_tx' = << >>
        /\ ev' = [op |-> "write_pdu",
                  arg |-> [sn |-> sn, pdu |-> pdu, st |-> st,
                           enable_security_rx_sn |-> enable_security_rx_sn]]
        /\ UNCHANGED << cfg, enable_security_tx_sn, rlc_discard, peer, hist >>

-----------------------------------------------------------------------------
(* Specifications *)

NextTx ==
  \/ WriteSdu
  \/ SetBearerState
  \/ DiscardTimerExpiry
  \/ NotifyDelivery
  \/ WritePduStatusReport
  \/ Reestablish

Next == NextTx

Spec == Init /\ [][Next]_vars

\* The receive path alone
NextRx == WritePduData

SpecRx == Init /\ [][NextRx]_vars

\* write_sdu calls alone, all of them counted
CountedWriteSdu ==
  \E upper_sn \in {NoSn} \cup OverrideSns, full \in BOOLEAN :
    /\ hist.total < MaxCountedWrites
    /\ WriteSduCall(upper_sn, full)
    /\ hist' = [hist EXCEPT !.total = @ + 1,
                            !.calls = IF upper_sn = NoSn THEN @ + 1 ELSE @,
                            !.sent = IF upper_sn = NoSn /\ ~full THEN @ + 1 ELSE @]

NextSdu == CountedWriteSdu \/ SetBearerState

SpecSdu == Init /\ [][NextSdu]_vars

\* Transmitter and fresh peer over a lossless in-order link
NextLink == LinkWriteSdu \/ LinkDeliver

SpecLink == Init /\ [][NextLink]_vars

\* Every handler, on the bearers that keep no retransmission queue
InitSrbUm == Init /\ ~IsAm

NextSrbUm ==
  \/ WriteSdu
  \/ DiscardTimerExpiry
  \/ NotifyDelivery
  \/ WritePduStatusReport
  \/ Reestablish
  \/ WritePduData

SpecSrbUm == InitSrbUm /\ [][NextSrbUm]_vars

\* Both directions of one entity
NextTxRx == WriteSdu \/ SetBearerState \/ WritePduData

SpecTxRx == Init /\ [][NextTxRx]_vars

\* The receive path with security
NextSecRx ==
  \/ WritePduProtected
  \/ \E direction \in {"TX", "RX"} : EnableSecurity(direction)
  \/ \E sn \in RxThresholds : EnableSecurityTimed("RX", sn)

\* Integrity protection is for SRBs: the receive path with security runs on
\* SRB entities
InitSrb == Init /\ is_srb

SpecSecRx == InitSrb /\ [][NextSecRx]_vars

\* The transmit path with security
NextSecTx ==
  \/ WriteSdu
  \/ SetBearerState
  \/ \E direction \in {"TX", "RX"} : EnableSecurity(direction)
  \/ \E count \in TxThresholds : EnableSecurityTimed("TX", count)

SpecSecTx == Init /\ [][NextSecTx]_vars

\* Short PDUs arriving at an entity that transmits
NextShort == WriteSdu \/ SetBearerState \/ WritePduShort

SpecShort == Init /\ [][NextShort]_vars

\* Reestablishment of an entity that transmits, with any configuration
NextReest == WriteSdu \/ SetBearerState \/ NotifyDelivery \/ Reestablish

SpecReest == InitAnyConfig /\ [][NextReest]_vars

\* The receive path of the data bearers
InitDrb == Init /\ is_drb

SpecRxDrb == InitDrb /\ [][NextRx]_vars

\* The first PDU received on an acknowledged-mode data bearer
InitAm == Init /\ IsAm

NextAmRx == SetBearerStateRx \/ WritePduFirst

SpecAmRx == InitAm /\ [][NextAmRx]_vars

-----------------------------------------------------------------------------
(* Properties *)

SnModulus == maximum_pdcp_sn + 1

\* C1 (as stated): after any write_sdu calls, NEXT_PDCP_TX_SN and TX_HFN are
\* the initial values advanced by N, the number of calls made without
\* override_sn.
C1_CountsEveryCall ==
  /\ st.next_pdcp_tx_sn = (hist.init_sn + hist.calls) % SnModulus
  /\ st.tx_hfn = hist.init_hfn + ((hist.init_sn + hist.calls) \div SnModulus)

\* C1 (amended): the same with N the number of calls made without override_sn
\* that RLC's full queue did not make write_sdu drop.
C1_CountsAcceptedCalls ==
  /\ st.next_pdcp_tx_sn = (hist.init_sn + hist.sent) % SnModulus
  /\ st.tx_hfn = hist.init_hfn + ((hist.init_sn + hist.sent) \div SnModulus)

\* A write_sdu at NEXT_PDCP_TX_SN = maximum_pdcp_sn has wrapped the SN, after
\* an earlier call was dropped
C1_Witness ==
  /\ ev.op = "write_sdu" /\ ev.arg = << NoSn, FALSE >>
  /\ hist.init_sn = maximum_pdcp_sn
  /\ st.next_pdcp_tx_sn = 0 /\ st.tx_hfn = hist.init_hfn + 1
  /\ hist.sent = 1 /\ hist.calls > hist.sent

\* C2: over a link that delivers every data PDU once and in order, the peer
\* delivers every PDU upward and deciphers it with the COUNT write_sdu used.
C2_CountRoundTrip ==
  ev.op = "link_deliver" =>
    /\ peer.rx.delivered
    /\ peer.rx.sn = ev.arg.pdcp_sn
    /\ peer.rx.count = ev.arg.count

\* The first PDU after the SN wrap-around has reached the peer of a DRB/AM bearer
C2_Witness ==
  /\ ev.op = "link_deliver" /\ IsAm
  /\ ev.arg.pdcp_sn = 0 /\ ev.arg.count = SnModulus
  /\ peer.rx.delivered /\ peer.st.rx_hfn = 1

\* C3: every key of the undelivered queue is the TX COUNT write_sdu computed
\* for the stored SDU.
C3_KeysAreCounts ==
  \A k \in DOMAIN undelivered_sdus_queue : k = undelivered_sdus_queue[k].count

\* C4: every key of the undelivered queue is a key of discard_timers_map if
\* and only if the discard timer is finite.
C4_TimerForEveryKey ==
  \A k \in DOMAIN undelivered_sdus_queue :
    (k \in DOMAIN discard_timers_map) <=> (cfg.discard_timer # "infinity")

\* C5: on an SRB and on a DRB over RLC-UM the undelivered queue is empty in
\* every reachable state.
C5_NoQueueOnSrbUm ==
  ~IsAm => undelivered_sdus_queue = EmptyMap

\* A DRB/UM entity that has written SDUs and received a PDU is reestablished
C5_Witness ==
  /\ rb_is_um /\ ev.op = "reestablish"
  /\ hist.total = MaxWrites /\ upper_rx.delivered
  /\ discard_timers_map # EmptyMap

\* C6: NEXT_PDCP_TX_SN and Next_PDCP_RX_SN stay within 0..maximum_pdcp_sn.
C6_SnInRange ==
  /\ 0 <= st.next_pdcp_tx_sn /\ st.next_pdcp_tx_sn <= maximum_pdcp_sn
  /\ 0 <= st.next_pdcp_rx_sn /\ st.next_pdcp_rx_sn <= maximum_pdcp_sn

\* A DRB/AM entity has taken the branch that sets Next_PDCP_RX_SN = SN + 1
\* without a wrap check, and has written an SDU at the maximum SN
C6_Witness ==
  /\ IsAm /\ ev.op = "write_pdu"
  /\ upper_rx.rule = "hfn_inc" /\ st.next_pdcp_rx_sn = upper_rx.sn + 1
  /\ st.tx_hfn = hist.init_hfn + 1 /\ st.next_pdcp_tx_sn = 0

\* C7: after the discard callback of an SDU's timer, the SDU is not in the
\* undelivered queue, RLC was told to discard its SN, and its timer is not in
\* discard_timers_map.
C7_ExpiryCleansUp ==
  ev.op = "discard_callback" =>
    /\ \A k \in DOMAIN undelivered_sdus_queue : undelivered_sdus_queue[k].sdu # ev.arg.sdu
    /\ rlc_discard = ev.arg.sn
    /\ \A k \in DOMAIN discard_timers_map : discard_timers_map[k].sdu # ev.arg.sdu

\* C8: after notify_delivery with SNs that are all in the undelivered queue,
\* neither the queue nor discard_timers_map holds an entry of those SDUs.
C8_DeliveryCleansUp ==
  (ev.op = "notify_delivery" /\ ev.arg.found) =>
    \A id \in ev.arg.sdus :
      /\ \A k \in DOMAIN undelivered_sdus_queue : undelivered_sdus_queue[k].sdu # id
      /\ \A k \in DOMAIN discard_timers_map : discard_timers_map[k].sdu # id

\* The SNs a status report acknowledges: those below FMS, and FMS + 8 i + j for
\* every bit j, counted from the most significant, set in bitmap byte i
ReportedSns(keys, pdu) ==
  { k \in keys : k < pdu.fms } \cup
  { pdu.fms + 8 * i + j :
      << i, j >> \in { p \in (DOMAIN pdu.bitmap) \X (0..7) :
                         (pdu.bitmap[p[1]] \div Pow2(7 - p[2])) % 2 = 1 } }

\* C9: handle_status_report_pdu removes exactly the entries the report
\* acknowledges and leaves every other entry in place.
C9_RemovesReportedSns ==
  [][ \A pdu \in StatusReportPdus : \A oob \in StatusOobReads(pdu) :
        ( /\ IsAm
          /\ ev'.op = "status_report"
          /\ SetRxContext(write_pdu(RxContext, pdu, oob)) )
        => /\ DOMAIN undelivered_sdus_queue' =
                (DOMAIN undelivered_sdus_queue) \ ReportedSns(DOMAIN undelivered_sdus_queue, pdu)
           /\ DOMAIN discard_timers_map' =
                (DOMAIN discard_timers_map) \ ReportedSns(DOMAIN undelivered_sdus_queue, pdu)
    ]_vars

\* C10: decoding a status report that send_status_report produced yields the
\* FMS and the flagged SNs the encoder put into it (whether the reads outside
\* the bitset yield 0 everywhere or 1 everywhere).
C10_ReportRoundTrip ==
  \A i \in DOMAIN rlc_tx :
    (is_drb /\ is_control_pdu(rlc_tx[i])) =>
      \A oob \in { {}, DOMAIN rlc_tx[i].bitmap } :
        /\ status_report_fms(rlc_tx[i].msg) = rlc_tx[i].fms
        /\ status_report_acked_sns(rlc_tx[i], status_report_fms(rlc_tx[i].msg), oob)
             = rlc_tx[i].flagged

\* The FMS field of a status report, read from its header bytes
FmsField(msg) ==
  IF cfg.sn_len = PDCP_SN_LEN_12 THEN (msg[1] % 16) * 256 + msg[2]
  ELSE (msg[1] % 4) * 65536 + msg[2] * 256 + msg[3]

\* The bits set in the bitmap of a status report, as pairs of byte offset and
\* bit position (0 = least significant); bytes the bitmap does not list are 0
ReportBits(pdu) ==
  { p \in (DOMAIN pdu.bitmap) \X (0..7) : (pdu.bitmap[p[1]] \div Pow2(p[2])) % 2 = 1 }

LastPduVerifies ==
  integrity_verify(ev.arg.pdu, upper_rx.count, encryption_direction \in {"RX", "TXRX"})

\* C12 (as stated): an SRB PDU with SN = maximum_pdcp_sn received while
\* Next_PDCP_RX_SN = 0 is deciphered and integrity-checked with a COUNT built
\* from RX_HFN + 1.
C12_MaxSnUsesNextHfn ==
  (is_srb /\ ev.op = "write_pdu" /\ ev.arg.sn = maximum_pdcp_sn
     /\ ev.arg.st.next_pdcp_rx_sn = 0) =>
    upper_rx.count = COUNT(ev.arg.st.rx_hfn + 1, maximum_pdcp_sn)

\* C12 (amended): that PDU is deciphered and integrity-checked with a COUNT
\* built from RX_HFN, and with RX integrity enabled it is delivered exactly
\* when its MAC-I verifies at that COUNT.
C12_MaxSnUsesRxHfn ==
  (is_srb /\ ev.op = "write_pdu" /\ ev.arg.sn = maximum_pdcp_sn
     /\ ev.arg.st.next_pdcp_rx_sn = 0) =>
    /\ upper_rx.count = COUNT(ev.arg.st.rx_hfn, maximum_pdcp_sn)
    /\ integrity_direction \in {"RX", "TXRX"} =>
         (upper_rx.delivered <=>
            /\ ev.arg.pdu.integrity
            /\ ev.arg.pdu.count = COUNT(ev.arg.st.rx_hfn, maximum_pdcp_sn)
            /\ ev.arg.pdu.ciphered = (encryption_direction \in {"RX", "TXRX"}))

\* An SRB entity with RX integrity has delivered the PDU with the maximum SN,
\* protected at RX_HFN, that arrived while Next_PDCP_RX_SN was 0
C12_Witness ==
  /\ is_srb /\ ev.op = "write_pdu" /\ ev.arg.sn = maximum_pdcp_sn
  /\ ev.arg.st.next_pdcp_rx_sn = 0
  /\ integrity_direction \in {"RX", "TXRX"}
  /\ upper_rx.delivered
  /\ st.next_pdcp_rx_sn = 0 /\ st.rx_hfn = ev.arg.st.rx_hfn + 1

\* C14: on an SRB entity with RX integrity enabled a PDU whose integrity
\* verification fails is dropped: nothing is delivered and Next_PDCP_RX_SN and
\* RX_HFN keep the values they had before the PDU arrived.
C14_IntegrityFailureDrops ==
  (is_srb /\ ev.op = "write_pdu" /\ integrity_direction \in {"RX", "TXRX"}
     /\ ~LastPduVerifies) =>
    /\ ~upper_rx.delivered
    /\ st.next_pdcp_rx_sn = ev.arg.st.next_pdcp_rx_sn
    /\ st.rx_hfn = ev.arg.st.rx_hfn

\* A PDU whose MAC-I was computed at another COUNT than the receiver's was
\* dropped by an SRB entity that had already received a PDU
C14_Witness ==
  /\ is_srb /\ ev.op = "write_pdu" /\ integrity_direction \in {"RX", "TXRX"}
  /\ ev.arg.pdu.integrity /\ ev.arg.pdu.count # upper_rx.count
  /\ ev.arg.st.next_pdcp_rx_sn > ev.arg.sn
  /\ ~upper_rx.delivered

\* C13: a DRB/AM entity discards a data PDU whose SN satisfies
\* 0 <= Last_Submitted_PDCP_RX_SN - SN < reordering_window or
\* SN - Last_Submitted_PDCP_RX_SN > reordering_window: nothing is delivered
\* and the state is unchanged.
C13_OutOfWindowDiscarded ==
  [][ ( /\ IsAm /\ ev'.op = "write_pdu"
        /\ LET sn == ev'.arg[1]
               last == st.last_submitted_pdcp_rx_sn
           IN  \/ (0 <= last - sn /\ last - sn < reordering_window)
               \/ sn - last > reordering_window )
      => (~upper_rx'.delivered /\ st' = st) ]_vars

\* A DRB/AM entity has discarded the PDU it had just delivered, received again
C13_Witness ==
  /\ IsAm /\ ev.op = "write_pdu" /\ ~upper_rx.delivered
  /\ ev.arg[1] = st.last_submitted_pdcp_rx_sn
  /\ st.next_pdcp_rx_sn = ev.arg[1] + 1

\* C15: a write_sdu call made while RLC reports its SDU queue full changes
\* nothing: counters, undelivered queue, discard timers, security directions
\* and pending threshold are unchanged and nothing is handed to RLC.
C15_FullQueueDrops ==
  [][ (ev'.op = "write_sdu" /\ ev'.arg[2]) =>
        /\ UNCHANGED << st, undelivered_sdus_queue, discard_timers_map,
                        integrity_direction, encryption_direction,
                        enable_security_tx_sn >>
        /\ rlc_tx' = << >> ]_vars

\* An SDU was dropped whose COUNT is the pending security threshold, after an
\* SDU that was sent
C15_Witness ==
  /\ ev.op = "write_sdu" /\ ev.arg = << NoSn, TRUE >>
  /\ enable_security_tx_sn = COUNT(st.tx_hfn, st.next_pdcp_tx_sn)
  /\ hist.total = MaxWrites
  /\ discard_timers_map # EmptyMap
  /\ rlc_tx = << >>

\* C20: a write_sdu call that is not dropped and whose tx_count equals the
\* pending TX security threshold turns TX integrity and ciphering on and clears
\* the threshold; otherwise it leaves directions and threshold alone. The PDU
\* of the call is protected by the directions as the call leaves them (MAC-I
\* on SRBs, ciphering).
C20_TxSecurityActivation ==
  [][ (ev'.op = "write_sdu" /\ ~ev'.arg[2]) =>
        LET upper_sn == ev'.arg[1]
            used_sn == IF upper_sn = NoSn THEN st.next_pdcp_tx_sn ELSE upper_sn
            tx_count == COUNT(st.tx_hfn, used_sn)
            pdu == rlc_tx'[1]
        IN  /\ IF enable_security_tx_sn # NoSn /\ enable_security_tx_sn = tx_count
                 THEN /\ integrity_direction' \in {"TX", "TXRX"}
                      /\ encryption_direction' \in {"TX", "TXRX"}
                      /\ enable_security_tx_sn' = NoSn
                      /\ pdu.ciphered
                      /\ is_srb => pdu.integrity
                 ELSE UNCHANGED << integrity_direction, encryption_direction,
                                   enable_security_tx_sn >>
            /\ Len(rlc_tx') = 1
            /\ pdu.ciphered = (encryption_direction' \in {"TX", "TXRX"})
            /\ pdu.integrity = (is_srb /\ integrity_direction' \in {"TX", "TXRX"})
    ]_vars

\* The SDU sent first after the SN wrap-around of an SRB is the first that is
\* MAC-protected and ciphered; the threshold was set before the wrap
C20_Witness ==
  /\ is_srb /\ ev.op = "write_sdu" /\ ev.arg = << NoSn, FALSE >>
  /\ rlc_tx # << >>
  /\ rlc_tx[1].count = maximum_pdcp_sn + 1
  /\ rlc_tx[1].integrity /\ rlc_tx[1].ciphered
  /\ integrity_direction = "TX" /\ enable_security_tx_sn = NoSn
  /\ hist.total = MaxWrites

\* C16: write_pdu rejects a PDU of at most hdr_len_bytes bytes, whatever its
\* first byte and the bearer kind: nothing is delivered upward and counters,
\* security directions, undelivered queue and discard timers are unchanged.
C16_ShortPduRejected ==
  [][ ev'.op = "write_pdu_short" =>
        UNCHANGED << st, integrity_direction, encryption_direction,
                     undelivered_sdus_queue, discard_timers_map, upper_rx >> ]_vars

\* C17: reestablish on a DRB/AM entity hands a status report to RLC only if
\* status_report_required is true; with the flag false no status report PDU
\* is handed to RLC during reestablish
C17_ReportOnlyIfRequired ==
  [][ (ev'.op = "reestablish" /\ IsAm /\ ~cfg.status_report_required)
        => \A i \in 1..Len(rlc_tx') : ~is_control_pdu(rlc_tx'[i]) ]_vars

\* The data PDUs among the PDUs handed to RLC
DataPdus(pdus) == SelectSeq(pdus, LAMBDA p : ~is_control_pdu(p))

\* C18: reestablish on a DRB/AM entity whose RLC queue is not full replays
\* every SDU stored in undelivered exactly once, in ascending key order, each
\* as a data PDU carrying its original SN; afterwards undelivered holds the
\* same keys as before and next_tx_sn and tx_hfn are unchanged
C18_ReplayPreservesOrder ==
  [][ (ev'.op = "reestablish" /\ IsAm /\ \A i \in DOMAIN ev'.arg : ~ev'.arg[i])
        => LET keys == SetToSortedSeq(DOMAIN undelivered_sdus_queue)
               data == DataPdus(rlc_tx')
           IN  /\ Len(data) = Len(keys)
               /\ \A i \in 1..Len(keys) :
                     /\ data[i].pdcp_sn = keys[i]
                     /\ read_data_header(data[i].msg) = keys[i]
                     /\ data[i].sdu = undelivered_sdus_queue[keys[i]].sdu
               /\ DOMAIN undelivered_sdus_queue' = DOMAIN undelivered_sdus_queue
               /\ st'.next_pdcp_tx_sn = st.next_pdcp_tx_sn
               /\ st'.tx_hfn = st.tx_hfn ]_vars

\* An AM entity has replayed two SDUs, those with the lowest and the highest SN
C18_Witness ==
  /\ IsAm /\ ev.op = "reestablish"
  /\ Len(ev.arg) = 2 /\ ~ev.arg[1] /\ ~ev.arg[2]
  /\ Len(DataPdus(rlc_tx)) = 2
  /\ DataPdus(rlc_tx)[1].pdcp_sn = 0
  /\ DataPdus(rlc_tx)[2].pdcp_sn = maximum_pdcp_sn
  /\ DOMAIN undelivered_sdus_queue = {0, maximum_pdcp_sn}

\* Distance on the SN circle from last_submitted_pdcp_rx_sn to
\* next_pdcp_rx_sn - 1, the shorter way round
LastSubmittedDistance ==
  LET modulus == maximum_pdcp_sn + 1
      d == (st.next_pdcp_rx_sn - 1 - st.last_submitted_pdcp_rx_sn) % modulus
  IN  Min({d, modulus - d})

\* C19: in every reachable state last_submitted_rx_sn lies within one
\* reordering window of next_rx_sn - 1, modulo maximum_pdcp_sn + 1
C19_LastSubmittedInWindow == LastSubmittedDistance <= reordering_window

\* The SNs of a notification list that come before its first SN that is not
\* a key of undelivered
NotifiedBeforeStop(und, pdcp_sns) ==
  { pdcp_sns[i] : i \in { j \in DOMAIN pdcp_sns :
                            \A k \in 1..j : pdcp_sns[k] \in DOMAIN und } }

\* C21: notify_delivery processes its SN list in order and stops at the first
\* SN that is not a key of undelivered: the entries of the SNs before it are
\* erased, the entries of the SNs listed after it remain in undelivered and
\* in discard_timers even if they are present
C21_NotifyStopsAtUnknownSn ==
  [][ ev'.op = "notify_delivery"
        => LET erased == NotifiedBeforeStop(undelivered_sdus_queue, ev'.arg.sns)
           IN  /\ undelivered_sdus_queue'
                    = [k \in (DOMAIN undelivered_sdus_queue) \ erased
                         |-> undelivered_sdus_queue[k]]
               /\ discard_timers_map'
                    = [k \in (DOMAIN discard_timers_map) \ erased
                         |-> discard_timers_map[k]] ]_vars

\* A notification named an unknown SN first and then the SN of a stored SDU
\* with a running timer: both entries of the second SN are still there
C21_Witness ==
  /\ ev.op = "notify_delivery"
  /\ Len(ev.arg.sns) = 2
  /\ ev.arg.sns[1] \notin DOMAIN undelivered_sdus_queue
  /\ ev.arg.sns[2] \in DOMAIN undelivered_sdus_queue
  /\ ev.arg.sns[2] \in DOMAIN discard_timers_map

\* The DRB/AM decision table: the first matching row for SN sn in receive
\* state s, with W the reordering window and signed differences on raw SNs
AmDecisionTable(s, sn) ==
  LET W == reordering_window
      d_ls == s.last_submitted_pdcp_rx_sn - sn
      d_sl == sn - s.last_submitted_pdcp_rx_sn
      d_sn == sn - s.next_pdcp_rx_sn
  IN  IF (0 <= d_sl /\ d_sl > W) \/ (0 <= d_ls /\ d_ls < W)
        THEN [deliver |-> FALSE, count |-> NoSn,
              next_rx_sn |-> s.next_pdcp_rx_sn, rx_hfn |-> s.rx_hfn]
      ELSE IF s.next_pdcp_rx_sn - sn > W
        THEN [deliver |-> TRUE, count |-> COUNT(Inc32(s.rx_hfn), sn),
              next_rx_sn |-> sn + 1, rx_hfn |-> Inc32(s.rx_hfn)]
      ELSE IF d_sn >= W
        THEN [deliver |-> TRUE, count |-> COUNT(s.rx_hfn - 1, sn),
              next_rx_sn |-> s.next_pdcp_rx_sn, rx_hfn |-> s.rx_hfn]
      ELSE IF sn >= s.next_pdcp_rx_sn
        THEN [deliver |-> TRUE, count |-> COUNT(s.rx_hfn, sn),
              next_rx_sn |-> IF sn = maximum_pdcp_sn THEN 0 ELSE sn + 1,
              rx_hfn |-> IF sn = maximum_pdcp_sn THEN Inc32(s.rx_hfn) ELSE s.rx_hfn]
      ELSE [deliver |-> TRUE, count |-> COUNT(s.rx_hfn, sn),
            next_rx_sn |-> s.next_pdcp_rx_sn, rx_hfn |-> s.rx_hfn]

\* C22: for every sn, next_rx_sn, last_submitted_rx_sn and rx_hfn,
\* handle_am_drb_pdu produces the COUNT, the new next_rx_sn, the new rx_hfn
\* and the deliver/discard outcome of the first matching row of the DRB/AM
\* decision table, and on deliver sets last_submitted_rx_sn = sn
C22_AmFollowsDecisionTable ==
  [][ (ev'.op = "write_pdu" /\ IsAm)
        => LET sn == ev'.arg[1]
               row == AmDecisionTable(st, sn)
           IN  /\ upper_rx'.delivered = row.deliver
               /\ st'.next_pdcp_rx_sn = row.next_rx_sn
               /\ st'.rx_hfn = row.rx_hfn
               /\ row.deliver => /\ upper_rx'.count = row.count
                                 /\ st'.last_submitted_pdcp_rx_sn = sn
               /\ ~row.deliver => st' = st ]_vars

\* A handed-over AM entity has delivered a PDU by the third row of the table,
\* counting it under the HFN before RX_HFN
C22_Witness ==
  /\ IsAm /\ ev.op = "write_pdu"
  /\ upper_rx.delivered /\ upper_rx.rule = "hfn_dec"
  /\ st.rx_hfn = 1
  /\ upper_rx.count = COUNT(0, upper_rx.sn)
  /\ st.last_submitted_pdcp_rx_sn = upper_rx.sn
  /\ st.next_pdcp_rx_sn # upper_rx.sn + 1

\* C23: a discard-timer expiry removes from undelivered only the SDU the
\* timer was armed for, never an entry stored by another write_sdu call, and
\* never removes from discard_timers a timer that belongs to another SDU
C23_ExpiryRemovesOnlyItsSdu ==
  [][ ev'.op = "discard_callback"
        => /\ \A k \in (DOMAIN undelivered_sdus_queue) \ DOMAIN undelivered_sdus_queue' :
                 undelivered_sdus_queue[k].sdu = ev'.arg.sdu
           /\ \A k \in (DOMAIN discard_timers_map) \ DOMAIN discard_timers_map' :
                 discard_timers_map[k].sdu = ev'.arg.sdu ]_vars

\* C24: when reestablish on a DRB/AM entity replays a stored SDU through
\* write_sdu, the COUNT of the replayed PDU equals the COUNT under which the
\* SDU was first transmitted, also when tx_hfn was incremented in between
C24_ReplayKeepsCount ==
  [][ (ev'.op = "reestablish" /\ IsAm)
        => \A i \in 1..Len(DataPdus(rlc_tx')) :
             LET pdu == DataPdus(rlc_tx')[i]
             IN  \A k \in DOMAIN undelivered_sdus_queue :
                   undelivered_sdus_queue[k].sdu = pdu.sdu
                     => pdu.count = undelivered_sdus_queue[k].count ]_vars

\* C25: on a DRB/AM entity handle_am_drb_pdu never delivers a PDU whose
\* COUNT was derived from rx_hfn - 1 while rx_hfn = 0; the rx_hfn - 1 branch
\* is only taken when rx_hfn >= 1
C25_NoHfnUnderflow ==
  [][ (ev'.op = "write_pdu" /\ IsAm /\ upper_rx'.delivered /\ upper_rx'.rule = "hfn_dec")
        => st.rx_hfn >= 1 ]_vars

====
